---- MODULE Spec2Model ----
(***************************************************************************)
(* The k_pipe byte pipe, in its two implementations:                       *)
(*   impl = "pipe_c"   src/kernel/pipe.c      head/tail indices + FULL bit  *)
(*   impl = "ring_buf" src/unnamed/part_000   ring_buf collaborator         *)
(* Every action is one critical section: the code between taking the pipe  *)
(* spinlock and releasing it (or suspending in z_pend_curr, which releases *)
(* it atomically).  Every state of the model is therefore a state in which *)
(* the lock is not held.                                                   *)
(***************************************************************************)
EXTENDS Integers, Sequences, FiniteSets, TLC

\* ---------------------------------------------------------------- bounds
MaxWaiters == 2
MaxCap == 2
MaxLen == 2
MaxBytes == 3
MaxStale == 1

\* ------------------------------------------------------- errno constants
EAGAIN == 11
EPIPE == 32
ECANCELED == 140
EALREADY == 120

\* the calls that are suspended or resuming, at most MaxWaiters at once; a
\* call that returns without suspending needs no entry
Threads == 1..MaxWaiters
Capacities == 1..MaxCap
ZeroCapacity == {0}
Lens == 0..MaxLen
Timeouts == {"K_NO_WAIT", "K_FOREVER", "K_MSEC"}
Impls == {"pipe_c", "ring_buf"}

VARIABLES
    impl,         \* which source file the pipe runs
    buffer_size,  \* pipe->buffer_size / ring_buf capacity
    head, tail,   \* pipe.c: ring indices
    buffer,       \* pipe.c: the caller's storage, index 0..buffer_size-1
    buf,          \* part_000: contents of the ring_buf, oldest first
    flags,        \* pipe->flags, a set of PIPE_FLAG_ bits
    waiting,      \* pipe->waiting
    data, space,  \* pipe->data, pipe->space: wait queues, earliest first
    thr,          \* per suspended caller: where it is in its call
    W, R,         \* history: bytes accepted by writes, bytes returned by reads
    last,         \* history: the call that returned last, and how often
                  \* it released the spinlock after taking it
    div0          \* history: a modulo by buffer_size == 0 was executed

vars == <<impl, buffer_size, head, tail, buffer, buf, flags, waiting,
          data, space, thr, W, R, last, div0>>

MIN(a, b) == IF a < b THEN a ELSE b

Idle == [pc |-> "idle", op |-> "none", len |-> 0, timeout |-> "none", wake |-> "none"]

\* bytes offered by writers that are suspended or about to resume
RECURSIVE SumLen(_)
SumLen(S) ==
    IF S = {} THEN 0
    ELSE LET t == CHOOSE x \in S : TRUE
         IN (IF thr[t].op = "write" THEN thr[t].len ELSE 0) + SumLen(S \ {t})

Outstanding == SumLen(Threads)

FreeSlots == {t \in Threads : thr[t].pc = "idle"}

free_slot == CHOOSE t \in FreeSlots : \A u \in FreeSlots : t <= u

\* the caller's source bytes: the k-th byte a write offers is labelled by
\* its position in the stream of accepted bytes
src_bytes(n) == [i \in 1..n |-> Len(W) + i]

\* ------------------------------------------------ pipe.c: occupancy
\* With buffer_size == 0 the modulo of line 12 is undefined.  The builds
\* differ in what the division instruction does then: it traps (see
\* utilization_trap), or it delivers a remainder equal to the dividend,
\* tail - head + 0, which is 0 because head and tail never leave 0.
mod_by_zero == impl = "pipe_c" /\ buffer_size = 0 /\ "FULL" \notin flags

utilization ==
    IF "FULL" \in flags
    THEN buffer_size
    ELSE IF buffer_size = 0
    THEN tail - head + buffer_size
    ELSE (tail - head + buffer_size) % buffer_size

queue_full == utilization = buffer_size

queue_empty == utilization = 0

\* ------------------------------------------------ part_000: ring_buf
ring_buf_capacity_get == buffer_size

ring_buf_space_get == buffer_size - Len(buf)

pipe_full == ring_buf_space_get = 0

pipe_empty == ring_buf_capacity_get - ring_buf_space_get = 0

ring_buf_put(n) == buf \o SubSeq(src_bytes(n), 1, MIN(n, ring_buf_space_get))

ring_buf_put_rc(n) == MIN(n, ring_buf_space_get)

ring_buf_get_rc(n) == MIN(n, Len(buf))

ring_buf_get(n) == SubSeq(buf, ring_buf_get_rc(n) + 1, Len(buf))

ring_buf_reset == << >>

\* ------------------------------------------------ wait queues
\* z_pend_curr: the current thread joins the tail of the queue
z_pend_curr(q, t) == Append(q, t)

\* z_unpend_first_thread: the earliest suspended thread, if any
z_unpend_first_thread(q) == IF q = << >> THEN {} ELSE {Head(q)}

\* a notify_waiter that makes every suspended thread ready
notify_waiter_all(q) == {q[i] : i \in 1..Len(q)}

\* the set of threads notify_waiter makes ready
notify_waiter(q) == z_unpend_first_thread(q)

after_notify(q) == IF q = << >> THEN q ELSE Tail(q)

\* z_unpend_all: every suspended thread is made ready
z_unpend_all(q) == {q[i] : i \in 1..Len(q)}

\* threads of S become runnable, woken for the given reason
Ready(th, S, why) ==
    [u \in Threads |->
        IF u \in S THEN [th[u] EXCEPT !.pc = "ready", !.wake = why] ELSE th[u]]

\* ------------------------------------------------ wait_for
\* a short-circuit that tests RESET only
wait_for_nowait_reset_only(timeout) == "RESET" \in flags

\* lines 28-31: the short-circuit that returns -EAGAIN without suspending
wait_for_nowait(timeout) == timeout = "K_NO_WAIT" \/ "RESET" \in flags

\* lines 34-46: after the wake, with the lock re-acquired
wait_for_wake(cond) ==
    LET w == waiting - 1 IN
    IF "OPEN" \notin flags
    THEN [rc |-> -EPIPE, flags |-> flags, waiting |-> w]
    ELSE IF "RESET" \in flags
    THEN [rc |-> -ECANCELED,
          flags |-> IF w = 0 THEN flags \ {"RESET"} ELSE flags,
          waiting |-> w]
    ELSE IF ~cond
    THEN [rc |-> 0, flags |-> flags, waiting |-> w]
    ELSE [rc |-> -EAGAIN, flags |-> flags, waiting |-> w]

\* a call returns rc, having released the spinlock once since it last took
\* it (k_spin_lock, or the re-acquisition that ends z_pend_curr)
Return(op, rc) == last' = [op |-> op, rc |-> rc, unlocks |-> 1]

\* a call returns rc after wait_for's short-circuit: wait_for has released
\* the lock and the caller's error path releases it again
ReturnUnlocked(op, rc) == last' = [op |-> op, rc |-> rc, unlocks |-> 2]

TypeOK ==
    /\ impl \in Impls \cup {"both"}
    /\ buffer_size \in Capacities \cup ZeroCapacity
    /\ div0 \in BOOLEAN
    /\ flags \subseteq {"OPEN", "RESET", "FULL"}
    /\ waiting \in Nat

k_pipe_init(impls, sizes) ==
    /\ impl \in impls
    /\ buffer_size \in sizes
    /\ head = 0
    /\ tail = 0
    /\ buffer = [i \in 0..(buffer_size - 1) |-> 0]
    /\ buf = << >>
    /\ flags = {"OPEN"}
    \* pipe.c:63 zeroes pipe->waiting; part_000's init (50-58) never assigns
    \* it, so it starts with whatever the caller's storage held
    /\ waiting \in (IF impl = "ring_buf" THEN 0..MaxStale ELSE {0})
    /\ data = << >>
    /\ space = << >>
    /\ thr = [t \in Threads |-> Idle]
    /\ W = << >>
    /\ R = << >>
    /\ last = [op |-> "init", rc |-> 0, unlocks |-> 0]
    /\ div0 = FALSE

Init == k_pipe_init(Impls, Capacities)

\* a pipe initialised with a buffer of size 0
InitZero == k_pipe_init(Impls, ZeroCapacity)

\* what init fixed and no call changes
Frozen == UNCHANGED <<impl, buffer_size, div0>>

\* the same for a pipe.c write or read, which evaluates utilization()
FrozenMod == UNCHANGED <<impl, buffer_size>> /\ div0' = (div0 \/ mod_by_zero)

\* pipe.c:12 on a build whose division traps on a zero divisor: the write
\* or read call faults before it has changed anything
utilization_trap ==
    /\ mod_by_zero
    /\ div0' = TRUE
    /\ last' = [op |-> "trap", rc |-> 0, unlocks |-> 0]
    /\ UNCHANGED <<impl, buffer_size, head, tail, buffer, buf, flags, waiting,
                   data, space, thr, W, R>>

\* scheduler: the timeout of a suspended thread expires; z_pend_curr returns
thread_timeout(t) ==
    /\ thr[t].pc = "pended"
    /\ thr[t].timeout = "K_MSEC"
    /\ data' = SelectSeq(data, LAMBDA u : u # t)
    /\ space' = SelectSeq(space, LAMBDA u : u # t)
    /\ thr' = Ready(thr, {t}, "timeout")
    /\ Frozen
    /\ UNCHANGED <<head, tail, buffer, buf, flags, waiting, W, R, last>>

\* ======================================================= src/kernel/pipe.c

\* a write that takes the caller's len as the number of bytes to copy
write_len_unclamped(len) == len

\* lines 92-111: copy into the ring, advance tail, notify, set FULL
write_len(len) == MIN(buffer_size - utilization, len)

write_tail(len) == (tail + write_len(len)) % buffer_size

write_buffer(len) ==
    LET n == write_len(len)
        first_chunk == MIN(buffer_size - tail, n)
        second_chunk == n - first_chunk
        d == src_bytes(len)
    IN [i \in 0..(buffer_size - 1) |->
          IF i >= tail /\ i < tail + first_chunk THEN d[i - tail + 1]
          ELSE IF i < second_chunk THEN d[first_chunk + i + 1]
          ELSE buffer[i]]

write_flags(len) ==
    IF write_len(len) > 0 /\ write_tail(len) = head
    THEN flags \cup {"FULL"}
    ELSE flags

\* lines 88-111, entered with the lock held; w is pipe->waiting by then
write_copy(th, len, w) ==
    IF "OPEN" \notin flags
    THEN /\ Return("write", -EPIPE)
         /\ thr' = th
         /\ waiting' = w
         /\ UNCHANGED <<head, tail, buffer, buf, flags, data, space, W, R>>
    ELSE LET n == write_len(len) IN
         /\ buffer' = write_buffer(len)
         /\ tail' = write_tail(len)
         /\ flags' = write_flags(len)
         /\ data' = IF n > 0 THEN after_notify(data) ELSE data
         /\ thr' = Ready(th,
                         IF n > 0 THEN notify_waiter(data) ELSE {}, "notify")
         /\ W' = W \o SubSeq(src_bytes(len), 1, n)
         /\ waiting' = w
         /\ Return("write", n)
         /\ UNCHANGED <<head, buf, space, R>>

\* lines 79-86 up to the suspension, then 88-112
z_impl_k_pipe_write(len, timeout) ==
    /\ impl = "pipe_c"
    /\ Len(W) + Outstanding + len <= MaxBytes
    /\ FrozenMod
    /\ IF queue_full
       THEN IF wait_for_nowait(timeout)
            THEN \* wait_for unlocks (29); the caller unlocks again (83)
                 /\ ReturnUnlocked("write", -EAGAIN)
                 /\ UNCHANGED <<head, tail, buffer, buf, flags, waiting,
                                data, space, thr, W, R>>
            ELSE /\ FreeSlots # {}
                 /\ waiting' = waiting + 1
                 /\ space' = z_pend_curr(space, free_slot)
                 /\ thr' = [thr EXCEPT ![free_slot] = [pc |-> "pended", op |-> "write",
                                len |-> len, timeout |-> timeout, wake |-> "none"]]
                 /\ UNCHANGED <<head, tail, buffer, buf, flags, data, W, R, last>>
       ELSE write_copy(thr, len, waiting)

\* lines 34-47 of wait_for, then 82-112
z_impl_k_pipe_write_resume(t) ==
    /\ impl = "pipe_c"
    /\ thr[t].pc = "ready"
    /\ thr[t].op = "write"
    /\ FrozenMod
    /\ LET res == wait_for_wake(queue_full) IN
       IF res.rc # 0
       THEN /\ Return("write", res.rc)
            /\ flags' = res.flags
            /\ waiting' = res.waiting
            /\ thr' = [thr EXCEPT ![t] = Idle]
            /\ UNCHANGED <<head, tail, buffer, buf, data, space, W, R>>
       ELSE write_copy([thr EXCEPT ![t] = Idle], thr[t].len, res.waiting)

\* lines 135-152
read_len(len) == MIN(len, utilization)

\* variant: head advanced by the requested length, not by the bytes copied
read_head_by_len(len) == (head + len) % buffer_size

read_head(len) == (head + read_len(len)) % buffer_size

read_bytes(len) ==
    LET n == read_len(len)
        first_chunk == MIN(buffer_size - head, n)
    IN [k \in 1..n |->
          IF k <= first_chunk THEN buffer[head + k - 1]
          ELSE buffer[k - first_chunk - 1]]

\* lines 130-153, entered with the lock held; w is pipe->waiting by then
read_copy(th, len, w) ==
    IF utilization = 0 /\ "OPEN" \notin flags
    THEN /\ Return("read", -EPIPE)
         /\ thr' = th
         /\ waiting' = w
         /\ UNCHANGED <<head, tail, buffer, buf, flags, data, space, W, R>>
    ELSE LET n == read_len(len) IN
         /\ head' = read_head(len)
         /\ flags' = IF n > 0 THEN flags \ {"FULL"} ELSE flags
         /\ space' = IF n > 0 THEN after_notify(space) ELSE space
         /\ thr' = Ready(th,
                         IF n > 0 THEN notify_waiter(space) ELSE {}, "notify")
         /\ R' = R \o read_bytes(len)
         /\ waiting' = w
         /\ Return("read", n)
         /\ UNCHANGED <<tail, buffer, buf, data, W>>

\* lines 122-129 up to the suspension, then 130-153
z_impl_k_pipe_read(len, timeout) ==
    /\ impl = "pipe_c"
    /\ FrozenMod
    /\ IF utilization = 0 /\ "OPEN" \in flags
       THEN IF wait_for_nowait(timeout)
            THEN \* wait_for unlocks (29); the caller unlocks again (126)
                 /\ ReturnUnlocked("read", -EAGAIN)
                 /\ UNCHANGED <<head, tail, buffer, buf, flags, waiting,
                                data, space, thr, W, R>>
            ELSE /\ FreeSlots # {}
                 /\ waiting' = waiting + 1
                 /\ data' = z_pend_curr(data, free_slot)
                 /\ thr' = [thr EXCEPT ![free_slot] = [pc |-> "pended", op |-> "read",
                                len |-> len, timeout |-> timeout, wake |-> "none"]]
                 /\ UNCHANGED <<head, tail, buffer, buf, flags, space, W, R, last>>
       ELSE read_copy(thr, len, waiting)

\* lines 34-47 of wait_for, then 125-153
z_impl_k_pipe_read_resume(t) ==
    /\ impl = "pipe_c"
    /\ thr[t].pc = "ready"
    /\ thr[t].op = "read"
    /\ FrozenMod
    /\ LET res == wait_for_wake(queue_empty) IN
       IF res.rc # 0 /\ res.rc # -EPIPE
       THEN /\ Return("read", res.rc)
            /\ flags' = res.flags
            /\ waiting' = res.waiting
            /\ thr' = [thr EXCEPT ![t] = Idle]
            /\ UNCHANGED <<head, tail, buffer, buf, data, space, W, R>>
       ELSE read_copy([thr EXCEPT ![t] = Idle], thr[t].len, res.waiting)

\* lines 155-167
reset_flags == flags \cup {"RESET"}

z_impl_k_pipe_reset ==
    /\ impl = "pipe_c"
    /\ Frozen
    /\ head' = 0
    /\ tail' = 0
    /\ flags' = reset_flags
    /\ thr' = Ready(thr, z_unpend_all(data) \cup z_unpend_all(space), "reset")
    /\ data' = << >>
    /\ space' = << >>
    /\ Return("reset", 0)
    /\ UNCHANGED <<buffer, buf, waiting, W, R>>

\* a close that clears the OPEN bit only
close_flags_open_only == flags \ {"OPEN"}

\* lines 169-184
close_flags == {}

z_impl_k_pipe_close ==
    /\ impl = "pipe_c"
    /\ Frozen
    /\ IF "OPEN" \notin flags
       THEN /\ Return("close", -EALREADY)
            /\ UNCHANGED <<head, tail, buffer, buf, flags, waiting,
                           data, space, thr, W, R>>
       ELSE /\ flags' = close_flags
            /\ thr' = Ready(thr, z_unpend_all(data) \cup z_unpend_all(space), "close")
            /\ data' = << >>
            /\ space' = << >>
            /\ Return("close", 0)
            /\ UNCHANGED <<head, tail, buffer, buf, waiting, W, R>>

\* =================================================== src/unnamed/part_000

\* lines 76-87, entered with the lock held; w is pipe->waiting by then
write_copy_rb(th, len, w) ==
    IF "OPEN" \notin flags
    THEN /\ Return("write", -EPIPE)
         /\ thr' = th
         /\ waiting' = w
         /\ UNCHANGED <<head, tail, buffer, buf, flags, data, space, W, R>>
    ELSE LET rc == ring_buf_put_rc(len) IN
         /\ buf' = ring_buf_put(len)
         /\ data' = IF rc # 0 THEN after_notify(data) ELSE data
         /\ thr' = Ready(th,
                         IF rc # 0 THEN notify_waiter(data) ELSE {}, "notify")
         /\ W' = W \o SubSeq(src_bytes(len), 1, rc)
         /\ waiting' = w
         /\ Return("write", rc)
         /\ UNCHANGED <<head, tail, buffer, flags, space, R>>

\* lines 67-74 up to the suspension, then 76-87
z_impl_k_pipe_write_rb(len, timeout) ==
    /\ impl = "ring_buf"
    /\ Len(W) + Outstanding + len <= MaxBytes
    /\ Frozen
    /\ IF pipe_full
       THEN IF wait_for_nowait(timeout)
            THEN \* wait_for unlocks (22); the caller unlocks again (71)
                 /\ ReturnUnlocked("write", -EAGAIN)
                 /\ UNCHANGED <<head, tail, buffer, buf, flags, waiting,
                                data, space, thr, W, R>>
            ELSE /\ FreeSlots # {}
                 /\ waiting' = waiting + 1
                 /\ space' = z_pend_curr(space, free_slot)
                 /\ thr' = [thr EXCEPT ![free_slot] = [pc |-> "pended", op |-> "write",
                                len |-> len, timeout |-> timeout, wake |-> "none"]]
                 /\ UNCHANGED <<head, tail, buffer, buf, flags, data, W, R, last>>
       ELSE write_copy_rb(thr, len, waiting)

\* lines 27-40 of wait_for, then 70-87
z_impl_k_pipe_write_resume_rb(t) ==
    /\ impl = "ring_buf"
    /\ thr[t].pc = "ready"
    /\ thr[t].op = "write"
    /\ Frozen
    /\ LET res == wait_for_wake(pipe_full) IN
       IF res.rc # 0
       THEN /\ Return("write", res.rc)
            /\ flags' = res.flags
            /\ waiting' = res.waiting
            /\ thr' = [thr EXCEPT ![t] = Idle]
            /\ UNCHANGED <<head, tail, buffer, buf, data, space, W, R>>
       ELSE write_copy_rb([thr EXCEPT ![t] = Idle], thr[t].len, res.waiting)

\* lines 104-115, entered with the lock held; w is pipe->waiting by then
read_copy_rb(th, len, w) ==
    IF pipe_empty /\ "OPEN" \notin flags
    THEN /\ Return("read", -EPIPE)
         /\ thr' = th
         /\ waiting' = w
         /\ UNCHANGED <<head, tail, buffer, buf, flags, data, space, W, R>>
    ELSE LET rc == ring_buf_get_rc(len) IN
         /\ buf' = ring_buf_get(len)
         /\ space' = IF rc # 0 THEN after_notify(space) ELSE space
         /\ thr' = Ready(th,
                         IF rc # 0 THEN notify_waiter(space) ELSE {}, "notify")
         /\ R' = R \o SubSeq(buf, 1, rc)
         /\ waiting' = w
         /\ Return("read", rc)
         /\ UNCHANGED <<head, tail, buffer, flags, data, W>>

\* lines 96-103 up to the suspension, then 104-115
z_impl_k_pipe_read_rb(len, timeout) ==
    /\ impl = "ring_buf"
    /\ Frozen
    /\ IF pipe_empty /\ "OPEN" \in flags
       THEN IF wait_for_nowait(timeout)
            THEN \* wait_for unlocks (22); the caller unlocks again (100)
                 /\ ReturnUnlocked("read", -EAGAIN)
                 /\ UNCHANGED <<head, tail, buffer, buf, flags, waiting,
                                data, space, thr, W, R>>
            ELSE /\ FreeSlots # {}
                 /\ waiting' = waiting + 1
                 /\ data' = z_pend_curr(data, free_slot)
                 /\ thr' = [thr EXCEPT ![free_slot] = [pc |-> "pended", op |-> "read",
                                len |-> len, timeout |-> timeout, wake |-> "none"]]
                 /\ UNCHANGED <<head, tail, buffer, buf, flags, space, W, R, last>>
       ELSE read_copy_rb(thr, len, waiting)

\* lines 27-40 of wait_for, then 99-115
z_impl_k_pipe_read_resume_rb(t) ==
    /\ impl = "ring_buf"
    /\ thr[t].pc = "ready"
    /\ thr[t].op = "read"
    /\ Frozen
    /\ LET res == wait_for_wake(pipe_empty) IN
       IF res.rc # 0 /\ res.rc # -EPIPE
       THEN /\ Return("read", res.rc)
            /\ flags' = res.flags
            /\ waiting' = res.waiting
            /\ thr' = [thr EXCEPT ![t] = Idle]
            /\ UNCHANGED <<head, tail, buffer, buf, data, space, W, R>>
       ELSE read_copy_rb([thr EXCEPT ![t] = Idle], thr[t].len, res.waiting)

\* lines 117-128
z_impl_k_pipe_reset_rb ==
    /\ impl = "ring_buf"
    /\ Frozen
    /\ buf' = ring_buf_reset
    /\ flags' = reset_flags
    /\ thr' = Ready(thr, z_unpend_all(data) \cup z_unpend_all(space), "reset")
    /\ data' = << >>
    /\ space' = << >>
    /\ Return("reset", 0)
    /\ UNCHANGED <<head, tail, buffer, waiting, W, R>>

\* lines 130-145
z_impl_k_pipe_close_rb ==
    /\ impl = "ring_buf"
    /\ Frozen
    /\ IF "OPEN" \notin flags
       THEN /\ Return("close", -EALREADY)
            /\ UNCHANGED <<head, tail, buffer, buf, flags, waiting,
                           data, space, thr, W, R>>
       ELSE /\ flags' = close_flags
            /\ thr' = Ready(thr, z_unpend_all(data) \cup z_unpend_all(space), "close")
            /\ data' = << >>
            /\ space' = << >>
            /\ Return("close", 0)
            /\ UNCHANGED <<head, tail, buffer, buf, waiting, W, R>>

\* ================================================================ system
Write == \E len \in Lens, timeout \in Timeouts : z_impl_k_pipe_write(len, timeout)
WriteResume == \E t \in Threads : z_impl_k_pipe_write_resume(t)
Read == \E len \in Lens, timeout \in Timeouts : z_impl_k_pipe_read(len, timeout)
ReadResume == \E t \in Threads : z_impl_k_pipe_read_resume(t)
Reset == z_impl_k_pipe_reset
Close == z_impl_k_pipe_close
WriteRb == \E len \in Lens, timeout \in Timeouts : z_impl_k_pipe_write_rb(len, timeout)
WriteResumeRb == \E t \in Threads : z_impl_k_pipe_write_resume_rb(t)
ReadRb == \E len \in Lens, timeout \in Timeouts : z_impl_k_pipe_read_rb(len, timeout)
ReadResumeRb == \E t \in Threads : z_impl_k_pipe_read_resume_rb(t)
ResetRb == z_impl_k_pipe_reset_rb
CloseRb == z_impl_k_pipe_close_rb
Timeout == \E t \in Threads : thread_timeout(t)

Next ==
    \/ Write
    \/ WriteResume
    \/ Read
    \/ ReadResume
    \/ Reset
    \/ Close
    \/ WriteRb
    \/ WriteResumeRb
    \/ ReadRb
    \/ ReadResumeRb
    \/ ResetRb
    \/ CloseRb
    \/ Timeout

Spec == Init /\ [][Next]_vars

\* the pipe of src/kernel/pipe.c alone
NextPipeC ==
    \/ Write
    \/ WriteResume
    \/ Read
    \/ ReadResume
    \/ Reset
    \/ Close
    \/ Timeout

InitPipeC == Init /\ impl = "pipe_c"

SpecPipeC == InitPipeC /\ [][NextPipeC]_vars

\* runs made of write and read calls only
NextWR ==
    \/ Write
    \/ WriteResume
    \/ Read
    \/ ReadResume
    \/ WriteRb
    \/ WriteResumeRb
    \/ ReadRb
    \/ ReadResumeRb
    \/ Timeout

SpecWR == Init /\ [][NextWR]_vars

\* runs made of write, read and close calls, without reset
NextNoReset ==
    \/ Write
    \/ WriteResume
    \/ Read
    \/ ReadResume
    \/ Close
    \/ WriteRb
    \/ WriteResumeRb
    \/ ReadRb
    \/ ReadResumeRb
    \/ CloseRb
    \/ Timeout

SpecNoReset == Init /\ [][NextNoReset]_vars

\* every call on a pipe whose buffer has size 0
Trap == utilization_trap

NextZero ==
    \/ Write
    \/ WriteResume
    \/ Read
    \/ ReadResume
    \/ Reset
    \/ Close
    \/ WriteRb
    \/ WriteResumeRb
    \/ ReadRb
    \/ ReadResumeRb
    \/ ResetRb
    \/ CloseRb
    \/ Timeout
    \/ Trap

SpecZero == InitZero /\ [][NextZero]_vars

\* ============================================ the two files side by side
\* impl = "both": the same calls, in the same order and with the same
\* arguments, are made on a pipe of src/kernel/pipe.c and on a pipe of
\* src/unnamed/part_000, both initialised in zeroed storage.  head, tail,
\* buffer and the FULL bit are the buffer of the first, buf is the ring_buf
\* of the second.  OPEN, RESET, waiting, the wait queues and the suspended
\* callers are kept once, as pipe.c has them: the two files hold the same
\* there as long as they have answered every call alike, and the run stops
\* after the first step in which they have not.  last holds the answers of
\* both: c is pipe.c's, rb is part_000's.
Returned(rc, bytes) == [kind |-> "return", rc |-> rc, bytes |-> bytes]

Suspended == [kind |-> "suspend", rc |-> 0, bytes |-> << >>]

\* the buffered bytes of the pipe.c side, oldest first
pipe_c_contents == [k \in 1..utilization |-> buffer[(head + k - 1) % buffer_size]]

SameSoFar ==
    /\ IF last.op = "init" THEN TRUE ELSE last.c = last.rb
    /\ pipe_c_contents = buf

\* pipe.c:79-91 and 110-111: what the caller of a write gets
write_outcome(len, timeout) ==
    IF queue_full
    THEN IF wait_for_nowait(timeout) THEN Returned(-EAGAIN, << >>) ELSE Suspended
    ELSE IF "OPEN" \notin flags THEN Returned(-EPIPE, << >>)
    ELSE Returned(write_len(len), << >>)

\* part_000:67-86
write_outcome_rb(len, timeout) ==
    IF pipe_full
    THEN IF wait_for_nowait(timeout) THEN Returned(-EAGAIN, << >>) ELSE Suspended
    ELSE IF "OPEN" \notin flags THEN Returned(-EPIPE, << >>)
    ELSE Returned(ring_buf_put_rc(len), << >>)

\* pipe.c:34-47 and 82-111: what a woken writer gets
write_outcome_wake(len) ==
    LET res == wait_for_wake(queue_full) IN
    IF res.rc # 0 THEN Returned(res.rc, << >>)
    ELSE IF "OPEN" \notin flags THEN Returned(-EPIPE, << >>)
    ELSE Returned(write_len(len), << >>)

\* part_000:27-39 and 70-86
write_outcome_wake_rb(len) ==
    LET res == wait_for_wake(pipe_full) IN
    IF res.rc # 0 THEN Returned(res.rc, << >>)
    ELSE IF "OPEN" \notin flags THEN Returned(-EPIPE, << >>)
    ELSE Returned(ring_buf_put_rc(len), << >>)

\* pipe.c:122-152: what the caller of a read gets
read_outcome(len, timeout) ==
    IF utilization = 0 /\ "OPEN" \in flags
    THEN IF wait_for_nowait(timeout) THEN Returned(-EAGAIN, << >>) ELSE Suspended
    ELSE IF utilization = 0 /\ "OPEN" \notin flags THEN Returned(-EPIPE, << >>)
    ELSE Returned(read_len(len), read_bytes(len))

\* part_000:96-114
read_outcome_rb(len, timeout) ==
    IF pipe_empty /\ "OPEN" \in flags
    THEN IF wait_for_nowait(timeout) THEN Returned(-EAGAIN, << >>) ELSE Suspended
    ELSE IF pipe_empty /\ "OPEN" \notin flags THEN Returned(-EPIPE, << >>)
    ELSE Returned(ring_buf_get_rc(len), SubSeq(buf, 1, ring_buf_get_rc(len)))

\* pipe.c:34-47 and 125-152: what a woken reader gets
read_outcome_wake(len) ==
    LET res == wait_for_wake(queue_empty) IN
    IF res.rc # 0 /\ res.rc # -EPIPE THEN Returned(res.rc, << >>)
    ELSE IF utilization = 0 /\ "OPEN" \notin flags THEN Returned(-EPIPE, << >>)
    ELSE Returned(read_len(len), read_bytes(len))

\* part_000:27-39 and 99-114
read_outcome_wake_rb(len) ==
    LET res == wait_for_wake(pipe_empty) IN
    IF res.rc # 0 /\ res.rc # -EPIPE THEN Returned(res.rc, << >>)
    ELSE IF pipe_empty /\ "OPEN" \notin flags THEN Returned(-EPIPE, << >>)
    ELSE Returned(ring_buf_get_rc(len), SubSeq(buf, 1, ring_buf_get_rc(len)))

\* pipe.c:92-109, the copy of a write and its notification
both_write_copy(th, len, w) ==
    LET n == write_len(len) IN
    /\ buffer' = write_buffer(len)
    /\ tail' = write_tail(len)
    /\ flags' = write_flags(len)
    /\ data' = IF n > 0 THEN after_notify(data) ELSE data
    /\ thr' = Ready(th, IF n > 0 THEN notify_waiter(data) ELSE {}, "notify")
    /\ W' = W \o SubSeq(src_bytes(len), 1, n)
    /\ waiting' = w
    /\ UNCHANGED <<head, space, R>>

\* pipe.c:135-150, the copy of a read and its notification
both_read_copy(th, len, w) ==
    LET n == read_len(len) IN
    /\ head' = read_head(len)
    /\ flags' = IF n > 0 THEN flags \ {"FULL"} ELSE flags
    /\ space' = IF n > 0 THEN after_notify(space) ELSE space
    /\ thr' = Ready(th, IF n > 0 THEN notify_waiter(space) ELSE {}, "notify")
    /\ R' = R \o read_bytes(len)
    /\ waiting' = w
    /\ UNCHANGED <<tail, buffer, data, W>>

\* k_pipe_write on both pipes
both_write(len, timeout) ==
    /\ impl = "both"
    /\ SameSoFar
    /\ Len(W) + Outstanding + len <= MaxBytes
    /\ Frozen
    /\ LET c == write_outcome(len, timeout)
           rb == write_outcome_rb(len, timeout)
       IN /\ buf' = IF rb.kind = "return" /\ rb.rc >= 0 THEN ring_buf_put(len) ELSE buf
          /\ last' = IF c = Suspended /\ rb = Suspended
                     THEN last
                     ELSE [op |-> "write", c |-> c, rb |-> rb]
          /\ IF c = Suspended
             THEN /\ FreeSlots # {}
                  /\ waiting' = waiting + 1
                  /\ space' = z_pend_curr(space, free_slot)
                  /\ thr' = [thr EXCEPT ![free_slot] = [pc |-> "pended", op |-> "write",
                                 len |-> len, timeout |-> timeout, wake |-> "none"]]
                  /\ UNCHANGED <<head, tail, buffer, flags, data, W, R>>
             ELSE IF c.rc < 0
             THEN UNCHANGED <<head, tail, buffer, flags, waiting, data, space, thr, W, R>>
             ELSE both_write_copy(thr, len, waiting)

\* a suspended k_pipe_write resumes on both pipes
both_write_resume(t) ==
    /\ impl = "both"
    /\ SameSoFar
    /\ thr[t].pc = "ready"
    /\ thr[t].op = "write"
    /\ Frozen
    /\ LET res == wait_for_wake(queue_full)
           c == write_outcome_wake(thr[t].len)
           rb == write_outcome_wake_rb(thr[t].len)
       IN /\ buf' = IF rb.rc >= 0 THEN ring_buf_put(thr[t].len) ELSE buf
          /\ last' = [op |-> "write", c |-> c, rb |-> rb]
          /\ IF c.rc < 0
             THEN /\ flags' = res.flags
                  /\ waiting' = res.waiting
                  /\ thr' = [thr EXCEPT ![t] = Idle]
                  /\ UNCHANGED <<head, tail, buffer, data, space, W, R>>
             ELSE both_write_copy([thr EXCEPT ![t] = Idle], thr[t].len, res.waiting)

\* k_pipe_read on both pipes
both_read(len, timeout) ==
    /\ impl = "both"
    /\ SameSoFar
    /\ Frozen
    /\ LET c == read_outcome(len, timeout)
           rb == read_outcome_rb(len, timeout)
       IN /\ buf' = IF rb.kind = "return" /\ rb.rc >= 0 THEN ring_buf_get(len) ELSE buf
          /\ last' = IF c = Suspended /\ rb = Suspended
                     THEN last
                     ELSE [op |-> "read", c |-> c, rb |-> rb]
          /\ IF c = Suspended
             THEN /\ FreeSlots # {}
                  /\ waiting' = waiting + 1
                  /\ data' = z_pend_curr(data, free_slot)
                  /\ thr' = [thr EXCEPT ![free_slot] = [pc |-> "pended", op |-> "read",
                                 len |-> len, timeout |-> timeout, wake |-> "none"]]
                  /\ UNCHANGED <<head, tail, buffer, flags, space, W, R>>
             ELSE IF c.rc < 0
             THEN UNCHANGED <<head, tail, buffer, flags, waiting, data, space, thr, W, R>>
             ELSE both_read_copy(thr, len, waiting)

\* a suspended k_pipe_read resumes on both pipes
both_read_resume(t) ==
    /\ impl = "both"
    /\ SameSoFar
    /\ thr[t].pc = "ready"
    /\ thr[t].op = "read"
    /\ Frozen
    /\ LET res == wait_for_wake(queue_empty)
           c == read_outcome_wake(thr[t].len)
           rb == read_outcome_wake_rb(thr[t].len)
       IN /\ buf' = IF rb.rc >= 0 THEN ring_buf_get(thr[t].len) ELSE buf
          /\ last' = [op |-> "read", c |-> c, rb |-> rb]
          /\ IF c.rc < 0
             THEN /\ flags' = res.flags
                  /\ waiting' = res.waiting
                  /\ thr' = [thr EXCEPT ![t] = Idle]
                  /\ UNCHANGED <<head, tail, buffer, data, space, W, R>>
             ELSE both_read_copy([thr EXCEPT ![t] = Idle], thr[t].len, res.waiting)

\* k_pipe_reset on both pipes: pipe.c:155-167, part_000:117-128
both_reset ==
    /\ impl = "both"
    /\ SameSoFar
    /\ Frozen
    /\ head' = 0
    /\ tail' = 0
    /\ buf' = ring_buf_reset
    /\ flags' = reset_flags
    /\ thr' = Ready(thr, z_unpend_all(data) \cup z_unpend_all(space), "reset")
    /\ data' = << >>
    /\ space' = << >>
    /\ last' = [op |-> "reset", c |-> Returned(0, << >>), rb |-> Returned(0, << >>)]
    /\ UNCHANGED <<buffer, waiting, W, R>>

\* k_pipe_close on both pipes: pipe.c:169-184, part_000:130-145
both_close ==
    /\ impl = "both"
    /\ SameSoFar
    /\ Frozen
    /\ IF "OPEN" \notin flags
       THEN /\ last' = [op |-> "close", c |-> Returned(-EALREADY, << >>),
                        rb |-> Returned(-EALREADY, << >>)]
            /\ UNCHANGED <<head, tail, buffer, buf, flags, waiting,
                           data, space, thr, W, R>>
       ELSE /\ flags' = close_flags
            /\ thr' = Ready(thr, z_unpend_all(data) \cup z_unpend_all(space), "close")
            /\ data' = << >>
            /\ space' = << >>
            /\ last' = [op |-> "close", c |-> Returned(0, << >>), rb |-> Returned(0, << >>)]
            /\ UNCHANGED <<head, tail, buffer, buf, waiting, W, R>>

BothWrite == \E len \in Lens, timeout \in Timeouts : both_write(len, timeout)
BothWriteResume == \E t \in Threads : both_write_resume(t)
BothRead == \E len \in Lens, timeout \in Timeouts : both_read(len, timeout)
BothReadResume == \E t \in Threads : both_read_resume(t)
BothReset == both_reset
BothClose == both_close

NextBoth ==
    \/ BothWrite
    \/ BothWriteResume
    \/ BothRead
    \/ BothReadResume
    \/ BothReset
    \/ BothClose
    \/ Timeout

InitBoth == k_pipe_init({"both"}, Capacities)

SpecBoth == InitBoth /\ [][NextBoth]_vars

\* ========================================================== observations
\* number of buffered bytes, as the pipe itself computes it
Occupancy == IF impl = "pipe_c" THEN utilization ELSE ring_buf_capacity_get - ring_buf_space_get

\* the buffered bytes, oldest first, as the next reads would return them
Contents ==
    IF impl = "pipe_c"
    THEN [k \in 1..utilization |-> buffer[(head + k - 1) % buffer_size]]
    ELSE buf

IsPrefix(a, b) == Len(a) <= Len(b) /\ SubSeq(b, 1, Len(a)) = a

Blocking == {"K_FOREVER", "K_MSEC"}

AllIdle == \A t \in Threads : thr[t].pc = "idle"

ReadCall(len, timeout) ==
    z_impl_k_pipe_read(len, timeout) \/ z_impl_k_pipe_read_rb(len, timeout)

WriteCall(len, timeout) ==
    z_impl_k_pipe_write(len, timeout) \/ z_impl_k_pipe_write_rb(len, timeout)

CloseCall == z_impl_k_pipe_close \/ z_impl_k_pipe_close_rb

\* ================================================================ claims

\* C1: after reset on an open pipe with waiting == 0 the pipe is a fresh
\* empty pipe: the next read with a timeout other than K_NO_WAIT suspends on
\* the data queue, and the next write of len >= 1 bytes succeeds with
\* min(len, capacity) bytes.
QuietReset == last.op = "reset" /\ waiting = 0 /\ AllIdle /\ "OPEN" \in flags

C1_ResetNoWaitersIsFresh ==
    [][QuietReset =>
        /\ \A len \in Lens, timeout \in Blocking :
              ReadCall(len, timeout) =>
                  /\ Len(data') = Len(data) + 1
                  /\ last' = last
        /\ \A len \in Lens \ {0}, timeout \in Timeouts :
              WriteCall(len, timeout) =>
                  /\ last'.op = "write"
                  /\ last'.rc = MIN(len, buffer_size)]_vars

\* C2: whenever the lock is free, waiting == 0 implies RESET is clear.
C2_WaitingZeroImpliesNoReset == (waiting = 0) => ("RESET" \notin flags)

\* C3: close leaves the buffered bytes as they are, for every occupancy up
\* to the capacity, and a read returns BROKEN_PIPE only from an empty buffer.
C3_CloseKeepsBytes ==
    [][/\ CloseCall => Contents' = Contents
       /\ \A len \in Lens, timeout \in Timeouts :
             (ReadCall(len, timeout) /\ last'.op = "read" /\ last'.rc = -EPIPE)
                 => Contents = << >>]_vars

\* C4: when reset has returned, the occupancy is zero: the pipe reports
\* empty and not full, whatever it held before.
C4_ResetEmpties == (last.op = "reset") => (Occupancy = 0)

\* C5: a pipe whose OPEN flag is clear has RESET clear and nobody suspended
\* on either wait queue.
C5_ClosedIsQuiet ==
    ("OPEN" \notin flags) =>
        /\ "RESET" \notin flags
        /\ data = << >>
        /\ space = << >>

\* C6: on a closed pipe every write call returns an error at once: nobody
\* is suspended by it and no byte is added to the buffer, for every timeout
\* and every occupancy.
C6_WriteAfterCloseFails ==
    [][\A len \in Lens, timeout \in Timeouts :
          ("OPEN" \notin flags /\ WriteCall(len, timeout)) =>
              /\ last'.op = "write"
              /\ last'.rc < 0
              /\ thr' = thr
              /\ space' = space
              /\ Contents' = Contents
              /\ W' = W]_vars

\* C7: reset handshake.  A thread that reset woke returns CANCELED (no close
\* in between); when the last of them has returned, RESET is clear and
\* waiting is 0; and a write of 1 byte made then succeeds.
HandshakeDone == AllIdle /\ last.rc = -ECANCELED /\ "OPEN" \in flags

C7_ResetHandshake ==
    [][/\ \A t \in Threads :
             (thr[t].pc = "ready" /\ thr[t].wake = "reset" /\ "OPEN" \in flags
              /\ thr'[t].pc = "idle") => last'.rc = -ECANCELED
       /\ HandshakeDone => ("RESET" \notin flags /\ waiting = 0)
       /\ \A timeout \in Timeouts :
             (HandshakeDone /\ WriteCall(1, timeout)) =>
                 (last'.op = "write" /\ last'.rc = 1)]_vars

\* C8: FIFO byte order.  In every interleaving of write and read calls the
\* bytes returned by reads are a prefix of the bytes accepted by writes, and
\* the bytes still buffered are exactly the rest, in order.
C8_FifoPrefix == IsPrefix(R, W) /\ R \o Contents = W

C8_Witness ==
    /\ impl = "pipe_c"
    /\ buffer_size = 2
    /\ Len(R) = MaxBytes
    /\ last.op = "read"
    /\ last.rc = 2
    /\ head = 1

\* C9: byte conservation.  Without reset, occupancy plus the bytes returned
\* by reads equals the bytes accepted by writes, and occupancy stays within
\* 0..capacity.
C9_Conservation ==
    /\ Occupancy + Len(R) = Len(W)
    /\ Occupancy \in 0..buffer_size

\* C10: whenever the lock is free, nobody is queued on the data queue while
\* the buffer holds bytes, and nobody is queued on the space queue while the
\* buffer has room.
C10_NoWaiterWithWork ==
    /\ ~(data # << >> /\ Occupancy > 0)
    /\ ~(space # << >> /\ Occupancy < buffer_size)

\* the threads a step takes from suspended to runnable
Woken == {t \in Threads : thr[t].pc = "pended" /\ thr'[t].pc = "ready"}

\* those of them that notify_waiter woke
Notified == {t \in Woken : thr'[t].wake = "notify"}

\* C11: a write that transfers at least one byte takes exactly the earliest
\* suspended thread off the data queue and makes it runnable within the same
\* critical section (nobody when the queue is empty), and leaves the space
\* queue alone; a read does the same with the space queue; a step in which
\* no byte is transferred (a write or read that moves nothing or fails)
\* notifies nobody.  Only writes extend W and only reads extend R.
C11_WakeEarliestOnce ==
    [][/\ (Len(W') > Len(W)) =>
              /\ Woken = z_unpend_first_thread(data)
              /\ Notified = Woken
              /\ data' = (IF data = << >> THEN data ELSE Tail(data))
              /\ space' = space
       /\ (Len(R') > Len(R)) =>
              /\ Woken = z_unpend_first_thread(space)
              /\ Notified = Woken
              /\ space' = (IF space = << >> THEN space ELSE Tail(space))
              /\ data' = data
       /\ (W' = W /\ R' = R) => Notified = {}]_vars

\* the earlier of two suspended readers was woken by a write, the later one
\* is still queued
C11_Witness ==
    /\ last.op = "write"
    /\ last.rc > 0
    /\ data = <<2>>
    /\ thr[1].pc = "ready"
    /\ thr[1].wake = "notify"
    /\ thr[1].op = "read"

\* C12: when close returns, whether with 0 or with ALREADY, nobody is left
\* suspended on the pipe: both wait queues are empty and every thread that
\* was suspended is runnable; a thread woken by close then returns
\* BROKEN_PIPE, a reader only if it finds the buffer empty (else it drains).
C12_CloseWakesAll ==
    [][/\ CloseCall =>
              /\ data' = << >>
              /\ space' = << >>
              /\ \A t \in Threads : thr'[t].pc # "pended"
       /\ \A t \in Threads :
             (thr[t].pc = "ready" /\ thr[t].wake = "close" /\ thr'[t].pc = "idle") =>
                 last'.rc = (IF thr[t].op = "read" /\ Occupancy > 0
                             THEN MIN(thr[t].len, Occupancy)
                             ELSE -EPIPE)]_vars

\* C13: close is one-shot.  A close of an open pipe returns 0 and clears
\* OPEN and RESET; a close of a pipe that is already closed returns ALREADY
\* and leaves flags, waiting, both wait queues, every suspended caller and
\* the buffer as they were, whatever reset, read or write calls came between.
C13_CloseOneShot ==
    [][CloseCall =>
          IF "OPEN" \in flags
          THEN /\ last'.op = "close"
               /\ last'.rc = 0
               /\ "OPEN" \notin flags'
               /\ "RESET" \notin flags'
          ELSE /\ last'.op = "close"
               /\ last'.rc = -EALREADY
               /\ UNCHANGED <<flags, waiting, data, space, thr>>
               /\ UNCHANGED <<head, tail, buffer, buf>>]_vars

\* a second close came after a reset of the closed pipe and left RESET set
C13_Witness ==
    /\ last.op = "close"
    /\ last.rc = -EALREADY
    /\ flags = {"RESET"}

\* C14: no-wait calls.  On an open pipe a write with K_NO_WAIT that finds
\* the buffer full, and a read with K_NO_WAIT that finds it empty, return
\* TRY_AGAIN without suspending and leave waiting, flags, the buffer and both
\* wait queues as they were.
C14_NoWaitReturnsAtOnce ==
    [][/\ ("OPEN" \in flags /\ Occupancy = buffer_size) =>
              \A len \in Lens :
                  WriteCall(len, "K_NO_WAIT") =>
                      /\ last'.op = "write"
                      /\ last'.rc = -EAGAIN
                      /\ UNCHANGED <<waiting, flags, data, space, thr>>
                      /\ UNCHANGED <<head, tail, buffer, buf, W, R>>
       /\ ("OPEN" \in flags /\ Occupancy = 0) =>
              \A len \in Lens :
                  ReadCall(len, "K_NO_WAIT") =>
                      /\ last'.op = "read"
                      /\ last'.rc = -EAGAIN
                      /\ UNCHANGED <<waiting, flags, data, space, thr>>
                      /\ UNCHANGED <<head, tail, buffer, buf, W, R>>]_vars

\* a write has just returned TRY_AGAIN from the full open pipe while RESET
\* is clear and nobody is suspended or resuming
C14_Witness ==
    /\ last.op = "write"
    /\ last.rc = -EAGAIN
    /\ flags \cap {"OPEN", "RESET"} = {"OPEN"}
    /\ Occupancy = buffer_size
    /\ waiting = 0
    /\ AllIdle
    /\ R = << >>

\* C15: on an open pipe a write with len == 0 and a read with len == 0
\* return 0 without suspending, for every timeout and every occupancy,
\* a full buffer for the write and an empty one for the read included.
C15_ZeroLengthReturnsZero ==
    [][("OPEN" \in flags) =>
          \A timeout \in Timeouts :
              /\ WriteCall(0, timeout) =>
                     /\ last'.op = "write"
                     /\ last'.rc = 0
                     /\ thr' = thr
              /\ ReadCall(0, timeout) =>
                     /\ last'.op = "read"
                     /\ last'.rc = 0
                     /\ thr' = thr]_vars

\* C16: partial transfers.  A write call on an open pipe that is not full
\* transfers min(len, free space) bytes and returns that count at once,
\* without suspending, also when it is less than len; a read call on a pipe
\* that is not empty transfers min(len, occupancy) bytes, the oldest ones,
\* and returns that count.
C16_PartialTransfer ==
    [][/\ ("OPEN" \in flags /\ Occupancy < buffer_size) =>
              \A len \in Lens, timeout \in Timeouts :
                  WriteCall(len, timeout) =>
                      LET n == MIN(len, buffer_size - Occupancy) IN
                      /\ last'.op = "write"
                      /\ last'.rc = n
                      /\ n <= len
                      /\ n <= buffer_size
                      /\ W' = W \o SubSeq(src_bytes(len), 1, n)
                      /\ Contents' = Contents \o SubSeq(src_bytes(len), 1, n)
                      /\ \A t \in Threads : thr'[t].pc # "pended" \/ thr[t].pc = "pended"
       /\ (Occupancy > 0) =>
              \A len \in Lens, timeout \in Timeouts :
                  ReadCall(len, timeout) =>
                      LET n == MIN(len, Occupancy) IN
                      /\ last'.op = "read"
                      /\ last'.rc = n
                      /\ R' = R \o SubSeq(Contents, 1, n)
                      /\ Contents' = SubSeq(Contents, n + 1, Len(Contents))
                      /\ \A t \in Threads : thr'[t].pc # "pended" \/ thr[t].pc = "pended"]_vars

\* a write filled the last free byte of a two-byte buffer that still holds
\* an older byte, and a read took one byte of two
C16_Witness ==
    /\ buffer_size = 2
    /\ last.op = "write"
    /\ last.rc = 1
    /\ Occupancy = 2
    /\ Len(R) = 1
    /\ Len(W) = 3

\* C17: on an open pipe of capacity 0 every write and every read suspends
\* or returns TRY_AGAIN (a K_NO_WAIT call always returns TRY_AGAIN); no call
\* transfers a byte or returns a count, and no step executes an undefined
\* operation such as the modulo by the zero buffer size.
C17_ZeroCapacity ==
    [][/\ ("OPEN" \in flags) =>
              \A len \in Lens, timeout \in Timeouts :
                  (WriteCall(len, timeout) \/ ReadCall(len, timeout)) =>
                      /\ \/ /\ timeout # "K_NO_WAIT"
                            /\ Len(data') + Len(space') = Len(data) + Len(space) + 1
                            /\ last' = last
                         \/ /\ last'.op \in {"write", "read"}
                            /\ last'.rc = -EAGAIN
                            /\ thr' = thr
       /\ last'.op \in {"write", "read"} => last'.rc < 0
       /\ W' = << >>
       /\ R' = << >>
       /\ div0' = FALSE]_vars

\* C18: lock discipline.  Every call that has returned released the
\* spinlock exactly once for the acquisition it made; no call releases a
\* lock it does not hold, in particular not after wait_for's short-circuit,
\* which has released it already.
C18_LockDiscipline ==
    (last.op \in {"write", "read", "reset", "close"}) => last.unlocks = 1

\* C19: a read or write that has suspended returns TRY_AGAIN only if its
\* own timeout expired; a call suspended with K_FOREVER therefore never
\* returns TRY_AGAIN, whichever thread runs between its wake-up and its
\* re-acquisition of the lock.
C19_TryAgainOnlyOnTimeout ==
    [][\A t \in Threads :
          (thr[t].pc = "ready" /\ thr'[t].pc = "idle" /\ last'.rc = -EAGAIN) =>
              /\ thr[t].wake = "timeout"
              /\ thr[t].timeout # "K_FOREVER"]_vars

\* C20: the two files are observationally equivalent: fed the same calls
\* with the same arguments in the same order, they give the same answer to
\* every call (the same return value and bytes, or both suspend the
\* caller), and after every step they hold the same number of bytes and the
\* same byte sequence.
C20_SameAnswers ==
    /\ IF last.op = "init" THEN TRUE ELSE last.c = last.rb
    /\ utilization = ring_buf_capacity_get - ring_buf_space_get
    /\ pipe_c_contents = buf

====
